---- MODULE Spec2Model ----
(***************************************************************************)
(* VoteVerify quality gate: the decision rules of the bias checker         *)
(* (bias_checker.py, "Decision Rules"), and the reloop session that        *)
(* applies them round after round (spec 4.4; its arithmetic is the one     *)
(* the tests of test_votify.py pin down).                                  *)
(***************************************************************************)
EXTENDS Integers, Sequences, FiniteSets, TLC

VARIABLES
    ev,           \* the evaluation handed to decide
    result,       \* what decide returned for ev (NotDecided before the call)
    state,        \* the session's state (spec 4.4)
    attempt,      \* the attempt counter, 1-based
    maxAttempts,  \* the attempt budget of run(promiseRecord, maxAttempts)
    history,      \* the session history: a sequence of attempts
    pending,      \* the Analysis of the round in progress
    decision,     \* the session's terminal Decision
    genCalls,     \* number of generation calls made so far
    evalCalls,    \* number of evaluation calls made so far
    pc,           \* a single call (check_bias, __init__, a CLI run): its stage
    inp,          \* the call's input and environment
    out,          \* what the call returned, raised, printed
    cancel,       \* whether the caller has asked the session to stop
    sessions      \* the sessions of a worker pool, one record per promise

vars == <<ev, result, state, attempt, maxAttempts, history, pending, decision,
          genCalls, evalCalls, pc, inp, out, cancel, sessions>>

\* No single call is under way.
NoInput == [op |-> "none"]
NoOutput == [kind |-> "none"]
\* No cancel request, no pool of sessions.
NoPool ==
    /\ cancel = FALSE
    /\ sessions = <<>>
OpsIdle ==
    /\ pc = "idle"
    /\ inp = NoInput
    /\ out = NoOutput
    /\ NoPool

(***************************************************************************)
(* Bounds.                                                                 *)
(***************************************************************************)
MaxAttemptsBound == 3
MaxHistory == 3

(***************************************************************************)
(* Scores.  Every score is an integer of 0..100; the rules are piecewise   *)
(* constant, so each dimension is probed on both sides of every threshold  *)
(* the rules and the score bands name, at the two ends of the range, and   *)
(* at the scores of the worked scenarios.                                  *)
(***************************************************************************)
BiasScores == {0, 15, 20, 21, 30, 31, 40, 41, 55, 70, 71, 80, 100}
HallucinationScores == {0, 3, 5, 6, 10, 11, 30, 31, 60, 61, 100}
CitationScores == {0, 49, 50, 69, 70, 80, 85, 95, 100}
AccuracyScores == {0, 59, 60, 69, 70, 80, 90, 95, 100}
CredibilityScores == {0, 100}
SatisfactionScores == {0, 39, 40, 59, 60, 79, 80, 85, 88, 90, 100}

\* An evaluation as the decision rules read it: the five scored dimensions
\* of the rules, credibility (scored, used by no rule), and the two findings
\* the RELOOP and REJECT rules name beside the scores.
Evaluation(b, h, c, a, cr, s, ce, sv) ==
    [bias |-> b, hallucination |-> h, citationQuality |-> c, accuracy |-> a,
     credibility |-> cr, satisfaction |-> s,
     criticalErrors |-> ce, ethicalViolations |-> sv]

(***************************************************************************)
(* Decision rules (bias_checker.py, lines 225-253).                        *)
(***************************************************************************)
Actions == {"approve", "approve_with_warning", "reloop", "reject"}
NoAction == "none"
NotDecided == "not_decided"

\* A variant that reads APPROVE as "otherwise".
ApproveOtherwise(e) == TRUE

\* **APPROVE** if: every line of the list holds.
ApproveCond(e) ==
    /\ e.bias <= 20
    /\ e.hallucination <= 5
    /\ e.citationQuality >= 70
    /\ e.accuracy >= 70
    /\ e.satisfaction >= 80

\* **APPROVE WITH WARNING** if: one of the lines holds.
WarningCond(e) ==
    \/ e.bias \in 21..30
    \/ e.hallucination \in 6..10
    \/ e.citationQuality \in 50..69
    \/ e.accuracy \in 60..69
    \/ e.satisfaction \in 60..79

\* A variant without the bias line of RELOOP.
ReloopCondNoBias(e) ==
    \/ e.hallucination \in 31..60
    \/ e.citationQuality < 50
    \/ e.accuracy < 60
    \/ e.satisfaction \in 40..59
    \/ e.criticalErrors

\* **RELOOP** if: one of the lines holds.
ReloopCond(e) ==
    \/ e.bias \in 41..70
    \/ e.hallucination \in 31..60
    \/ e.citationQuality < 50
    \/ e.accuracy < 60
    \/ e.satisfaction \in 40..59
    \/ e.criticalErrors

\* A variant with the hallucination bound of REJECT at 70.
RejectCondLax(e) ==
    \/ e.bias > 70
    \/ e.hallucination > 70
    \/ e.satisfaction < 40
    \/ e.ethicalViolations

\* **REJECT** if: one of the lines holds.
RejectCond(e) ==
    \/ e.bias > 70
    \/ e.hallucination > 60
    \/ e.satisfaction < 40
    \/ e.ethicalViolations

TierCond(t, e) ==
    CASE t = "reject" -> RejectCond(e)
      [] t = "reloop" -> ReloopCond(e)
      [] t = "approve_with_warning" -> WarningCond(e)
      [] t = "approve" -> ApproveCond(e)

\* The order in which the tiers are tried: worst first (spec 4.3).
TierOrder == <<"reject", "reloop", "approve_with_warning", "approve">>

\* decide: the first tier of TierOrder whose rule matches; NoAction when no
\* rule matches.
decide(e) ==
    LET matching == { i \in 1..Len(TierOrder) : TierCond(TierOrder[i], e) }
    IN  IF matching = {} THEN NoAction
        ELSE TierOrder[CHOOSE i \in matching : \A j \in matching : i <= j]

(***************************************************************************)
(* The decide specification: one evaluation in, one action out.            *)
(***************************************************************************)
IdleEval == Evaluation(0, 0, 100, 100, 100, 100, FALSE, FALSE)
NoDecision ==
    [action |-> NoAction, selected |-> 0, attempts |-> 0,
     bestAttemptSelected |-> FALSE]
NoAnalysis == [detailed_score |-> 0]

SessionIdle ==
    /\ state = "Idle"
    /\ attempt = 1
    /\ maxAttempts = 1
    /\ history = <<>>
    /\ pending = NoAnalysis
    /\ decision = NoDecision
    /\ genCalls = 0
    /\ evalCalls = 0

InitDecide ==
    /\ \E b \in BiasScores, h \in HallucinationScores, c \in CitationScores,
          a \in AccuracyScores, cr \in CredibilityScores,
          s \in SatisfactionScores, ce \in BOOLEAN, sv \in BOOLEAN :
          ev = Evaluation(b, h, c, a, cr, s, ce, sv)
    /\ result = NotDecided
    /\ SessionIdle
    /\ OpsIdle

Decide ==
    /\ result = NotDecided
    /\ result' = decide(ev)
    /\ UNCHANGED <<cancel, sessions, pc, inp, out, ev,
                   state, attempt, maxAttempts, history, pending,
                   decision, genCalls, evalCalls>>

NextDecide == Decide

SpecDecide == InitDecide /\ [][NextDecide]_vars

(***************************************************************************)
(* Properties of decide, checked under SpecDecide.                         *)
(***************************************************************************)
Decided == result # NotDecided

Severity(a) ==
    CASE a = "reject" -> 4
      [] a = "reloop" -> 3
      [] a = "approve_with_warning" -> 2
      [] a = "approve" -> 1
      [] OTHER -> 0

\* The tier of each dimension taken alone, as a severity (0: the dimension's
\* score is in no tier of the rules).
BiasTier(b) ==
    IF b > 70 THEN 4 ELSE IF b >= 41 THEN 3
    ELSE IF b >= 21 /\ b <= 30 THEN 2 ELSE IF b <= 20 THEN 1 ELSE 0
HallucinationTier(h) ==
    IF h > 60 THEN 4 ELSE IF h >= 31 THEN 3
    ELSE IF h >= 6 /\ h <= 10 THEN 2 ELSE IF h <= 5 THEN 1 ELSE 0
CitationTier(c) == IF c < 50 THEN 3 ELSE IF c <= 69 THEN 2 ELSE 1
AccuracyTier(a) == IF a < 60 THEN 3 ELSE IF a <= 69 THEN 2 ELSE 1
SatisfactionTier(s) ==
    IF s < 40 THEN 4 ELSE IF s <= 59 THEN 3 ELSE IF s <= 79 THEN 2 ELSE 1
DimensionTiers(e) ==
    {BiasTier(e.bias), HallucinationTier(e.hallucination),
     CitationTier(e.citationQuality), AccuracyTier(e.accuracy),
     SatisfactionTier(e.satisfaction)}

C3_TotalCoverage == Decided => result \in Actions

SessionEvals ==
    { Evaluation(b, h, 85, 90, 80, s, FALSE, FALSE) :
        b \in {0, 50, 80}, h \in {0, 10}, s \in {55, 90} }

\* The analyses a generation call may return.
Analyses == { [detailed_score |-> d] : d \in {35, 75} }

\* A variant that numbers the attempts from 0.
AttemptZeroBased(k, a, e) ==
    [attempt |-> k - 1, response |-> a, evaluation |-> e]

\* A variant that records the evaluation without the response.
AttemptNoResponse(k, a, e) ==
    [attempt |-> k, response |-> NoAnalysis, evaluation |-> e]

\* One entry of the history (test_reloop_history_structure).
Attempt(k, a, e) == [attempt |-> k, response |-> a, evaluation |-> e]

\* A variant that never stops relooping.
can_reloop_always(current_attempt, max_attempts) == TRUE

\* A variant that still reloops at the limit.
can_reloop_inclusive(current_attempt, max_attempts) ==
    current_attempt <= max_attempts

\* can_reloop = current_attempt < max_attempts (test_reloop_max_attempts).
can_reloop(current_attempt, max_attempts) == current_attempt < max_attempts

\* quality_score = bias + hallucination + (100 - satisfaction)
\* (test_best_attempt_selection_logic).
quality_score(e) == e.bias + e.hallucination + (100 - e.satisfaction)

\* min(attempts, key=quality_score): a left-to-right scan that replaces the
\* running best only by a strictly lower key, so the first minimum wins.
\* A variant in which a later attempt with an equal key replaces the best.
RECURSIVE MinScanLast(_, _, _)
MinScanLast(h, i, best) ==
    IF i > Len(h) THEN best
    ELSE IF quality_score(h[i].evaluation) <= quality_score(best.evaluation)
         THEN MinScanLast(h, i + 1, h[i])
         ELSE MinScanLast(h, i + 1, best)

\* A variant that keeps the highest key (max for min).
RECURSIVE MaxScan(_, _, _)
MaxScan(h, i, best) ==
    IF i > Len(h) THEN best
    ELSE IF quality_score(h[i].evaluation) > quality_score(best.evaluation)
         THEN MaxScan(h, i + 1, h[i])
         ELSE MaxScan(h, i + 1, best)

RECURSIVE MinScan(_, _, _)
MinScan(h, i, best) ==
    IF i > Len(h) THEN best
    ELSE IF quality_score(h[i].evaluation) < quality_score(best.evaluation)
         THEN MinScan(h, i + 1, h[i])
         ELSE MinScan(h, i + 1, best)

BestAttempt(h) == MinScan(h, 2, h[1])

\* A variant that flags an outright decision as a best-attempt pick.
OutrightDecisionFlagged(action, n) ==
    [action |-> action, selected |-> n, attempts |-> n,
     bestAttemptSelected |-> TRUE]

\* The quality-check record of a round decided outright
\* (test_quality_check_metadata: decision, attempts, bestAttemptSelected).
OutrightDecision(action, n) ==
    [action |-> action, selected |-> n, attempts |-> n,
     bestAttemptSelected |-> FALSE]

\* The record of an exhausted session: the best attempt, action reject.
FallbackDecision(h) ==
    [action |-> "reject", selected |-> BestAttempt(h).attempt,
     attempts |-> Len(h), bestAttemptSelected |-> TRUE]

\* A variant in which a reject is retried like a reloop.
StateOfRetryReject(action) ==
    CASE action = "approve" -> "Approved"
      [] action = "approve_with_warning" -> "Warned"
      [] action = "reject" -> "Reloop"
      [] action = "reloop" -> "Reloop"

\* The state a round's action leads to.
StateOf(action) ==
    CASE action = "approve" -> "Approved"
      [] action = "approve_with_warning" -> "Warned"
      [] action = "reject" -> "Rejected"
      [] action = "reloop" -> "Reloop"

Init ==
    /\ ev = IdleEval
    /\ result = NotDecided
    /\ state = "Generating"
    /\ attempt = 1
    /\ maxAttempts \in 1..MaxAttemptsBound
    /\ history = <<>>
    /\ pending = NoAnalysis
    /\ decision = NoDecision
    /\ genCalls = 0
    /\ evalCalls = 0
    /\ OpsIdle

\* Generating: the generation call returns an Analysis.
Generate ==
    /\ state = "Generating"
    /\ ~cancel
    /\ \E a \in Analyses : pending' = a
    /\ genCalls' = genCalls + 1
    /\ state' = "Evaluating"
    /\ UNCHANGED <<cancel, sessions, pc, inp, out, ev,
                   result, attempt, maxAttempts, history, decision,
                   evalCalls>>

\* Evaluating: the evaluation call returns an Evaluation; the attempt is
\* recorded in the history before the decision is taken.
Evaluate ==
    /\ state = "Evaluating"
    /\ \E e \in SessionEvals :
          history' = Append(history, Attempt(attempt, pending, e))
    /\ evalCalls' = evalCalls + 1
    /\ state' = "Deciding"
    /\ UNCHANGED <<cancel, sessions, pc, inp, out, ev,
                   result, attempt, maxAttempts, pending, decision,
                   genCalls>>

\* What check_bias returns when the evaluation call cannot be made or
\* raises: an error reason and a forced reject, no scores
\* (check_bias.py, except Exception).
ErrorEvaluation == [error |-> "Bias check failed", finalDecision |-> "reject"]

\* A variant that takes a failed evaluation as a reason to try again.
ActionOfRetry(e) == IF "error" \in DOMAIN e THEN "reloop" ELSE decide(e)

\* The action of a round: the forced action of an error record, else what
\* the decision rules give for the scores.
ActionOf(e) == IF "error" \in DOMAIN e THEN e.finalDecision ELSE decide(e)

\* Deciding: decide on the evaluation just recorded.
DecideRound ==
    /\ state = "Deciding"
    /\ LET action == ActionOf(history[Len(history)].evaluation)
       IN  /\ state' = StateOf(action)
           /\ decision' = IF action = "reloop" THEN decision
                          ELSE OutrightDecision(action, attempt)
    /\ UNCHANGED <<cancel, sessions, pc, inp, out, ev,
                   result, attempt, maxAttempts, history, pending,
                   genCalls, evalCalls>>

\* Reloop with budget left: next attempt.
ReloopAgain ==
    /\ state = "Reloop"
    /\ can_reloop(attempt, maxAttempts)
    /\ attempt <= MaxAttemptsBound
    /\ attempt' = attempt + 1
    /\ state' = "Generating"
    /\ UNCHANGED <<cancel, sessions, pc, inp, out, ev,
                   result, maxAttempts, history, pending, decision,
                   genCalls, evalCalls>>

\* Reloop with the budget used up: Exhausted, best-attempt fallback.
Exhaust ==
    /\ state = "Reloop"
    /\ ~can_reloop(attempt, maxAttempts)
    /\ state' = "Exhausted"
    /\ decision' = FallbackDecision(history)
    /\ UNCHANGED <<cancel, sessions, pc, inp, out, ev,
                   result, attempt, maxAttempts, history, pending,
                   genCalls, evalCalls>>

Next ==
    \/ Generate
    \/ Evaluate
    \/ DecideRound
    \/ ReloopAgain
    \/ Exhaust

Spec == Init /\ [][Next]_vars

(***************************************************************************)
(* The session with failing calls (spec 5, 7): a generation call that      *)
(* fails consumes its attempt; an evaluation call that fails comes back    *)
(* from check_bias as an error record with a forced reject.                *)
(***************************************************************************)
\* The outcome of a session in which no attempt was ever completed.
HardFailure ==
    [action |-> "failed", selected |-> 0, attempts |-> 0,
     bestAttemptSelected |-> FALSE]

\* The generation call throws (network, timeout, quota) with budget left:
\* the attempt is consumed, the next one starts.
GenerateFailsRetry ==
    /\ state = "Generating"
    /\ ~cancel
    /\ can_reloop(attempt, maxAttempts)
    /\ attempt <= MaxAttemptsBound
    /\ genCalls' = genCalls + 1
    /\ attempt' = attempt + 1
    /\ UNCHANGED <<cancel, sessions, pc, inp, out, ev,
                   result, state, maxAttempts, history,
                   pending, decision, evalCalls>>

\* The generation call throws on the last attempt: the session is exhausted;
\* with an empty history it is a hard failure.
GenerateFailsLast ==
    /\ state = "Generating"
    /\ ~cancel
    /\ ~can_reloop(attempt, maxAttempts)
    /\ genCalls' = genCalls + 1
    /\ IF history = <<>>
         THEN state' = "Failed" /\ decision' = HardFailure
         ELSE state' = "Exhausted" /\ decision' = FallbackDecision(history)
    /\ UNCHANGED <<cancel, sessions, pc, inp, out, ev,
                   result, attempt, maxAttempts, history,
                   pending, evalCalls>>

\* The evaluation call fails: check_bias catches the exception and returns
\* the error record, which is recorded like any other evaluation.
EvaluateFails ==
    /\ state = "Evaluating"
    /\ history' = Append(history, Attempt(attempt, pending, ErrorEvaluation))
    /\ evalCalls' = evalCalls + 1
    /\ state' = "Deciding"
    /\ UNCHANGED <<cancel, sessions, pc, inp, out, ev,
                   result, attempt, maxAttempts, pending,
                   decision, genCalls>>

NextCalls ==
    \/ Generate
    \/ Evaluate
    \/ DecideRound
    \/ ReloopAgain
    \/ Exhaust
    \/ GenerateFailsRetry
    \/ GenerateFailsLast
    \/ EvaluateFails

\* Every call eventually returns, throws or times out, and the orchestrator
\* then takes its next step.
SpecCalls == Init /\ [][NextCalls]_vars /\ WF_vars(NextCalls)

(***************************************************************************)
(* Best-attempt selection on its own: any history of attempts, then the    *)
(* selection.                                                              *)
(***************************************************************************)
InitSelect ==
    /\ ev = IdleEval
    /\ result = NotDecided
    /\ state = "Recording"
    /\ attempt = 1
    /\ maxAttempts = MaxHistory
    /\ history = <<>>
    /\ pending = NoAnalysis
    /\ decision = NoDecision
    /\ genCalls = 0
    /\ evalCalls = 0
    /\ OpsIdle

\* One more attempt enters the history, whatever its evaluation.
RecordAttempt ==
    /\ state = "Recording"
    /\ Len(history) < MaxHistory
    /\ \E a \in Analyses, e \in SessionEvals :
          history' = Append(history, Attempt(Len(history) + 1, a, e))
    /\ attempt' = Len(history) + 1
    /\ UNCHANGED <<cancel, sessions, pc, inp, out, ev,
                   result, state, maxAttempts, pending, decision,
                   genCalls, evalCalls>>

\* The best attempt of the history is selected.
SelectBest ==
    /\ state = "Recording"
    /\ history # <<>>
    /\ state' = "Exhausted"
    /\ decision' = FallbackDecision(history)
    /\ UNCHANGED <<cancel, sessions, pc, inp, out, ev,
                   result, attempt, maxAttempts, history, pending,
                   genCalls, evalCalls>>

NextSelect ==
    \/ RecordAttempt
    \/ SelectBest

SpecSelect == InitSelect /\ [][NextSelect]_vars

(***************************************************************************)
(* Properties of the session.                                              *)
(***************************************************************************)
LastAttempt == history[Len(history)]
RoundAction == ActionOf(LastAttempt.evaluation)
Penalty(a) ==
    a.evaluation.bias + a.evaluation.hallucination
        + (100 - a.evaluation.satisfaction)
Penalties == [i \in 1..Len(history) |-> Penalty(history[i])]

\* The steps C5 allows for the attempt counter and the generation rounds.
C5_CounterStep ==
    /\ (attempt' # attempt) =>
          (state = "Reloop" /\ attempt < maxAttempts
              /\ attempt' = attempt + 1)
    /\ (genCalls' # genCalls) =>
          (genCalls' = genCalls + 1 /\ genCalls' = attempt)

\* C5: the attempt counter starts at 1, it only moves by one, after a
\* reloop decision and when it is strictly below maxAttempts, and the number
\* of generation rounds never exceeds maxAttempts.
C5_AttemptBudget ==
    /\ attempt = 1
    /\ [](genCalls <= maxAttempts)
    /\ [][C5_CounterStep]_vars

\* A session that used its whole budget of more than one round.
C5_Witness ==
    /\ maxAttempts = MaxAttemptsBound
    /\ genCalls = maxAttempts
    /\ attempt = maxAttempts
    /\ state = "Reloop"

\* C6: a reloop decision at attempt = maxAttempts leads to Exhausted, never
\* to Rejected or to another round; Rejected is entered only from a round
\* whose decision is reject.
C6_ExhaustedNotRejected ==
    /\ [][ (state = "Reloop" /\ attempt = maxAttempts)
              => state' = "Exhausted" ]_vars
    /\ [][ (state' = "Rejected" /\ state # "Rejected")
              => (state = "Deciding" /\ RoundAction = "reject") ]_vars
    /\ [][ (state' = "Exhausted" /\ state # "Exhausted")
              => (state = "Reloop" /\ attempt = maxAttempts) ]_vars

\* An exhausted session whose last round decided reloop.
C6_Witness ==
    /\ state = "Exhausted"
    /\ attempt = maxAttempts
    /\ maxAttempts >= 2
    /\ RoundAction = "reloop"

\* A deciding round with a terminal action ends in a terminal state.
C7_DecisionEnds ==
    (state = "Deciding"
        /\ RoundAction \in {"approve", "approve_with_warning", "reject"})
    => state' \in {"Approved", "Warned", "Rejected"}

\* Nothing moves once the session is Approved, Warned or Rejected.
C7_NothingAfter ==
    state \in {"Approved", "Warned", "Rejected"} =>
        (state' = state /\ genCalls' = genCalls /\ evalCalls' = evalCalls
            /\ history' = history /\ attempt' = attempt)

\* C7: a round whose decision is approve, approve_with_warning or reject
\* ends the session; from then on no generation call, no evaluation call and
\* no new attempt, whatever budget is left.
C7_TerminalStops ==
    /\ [][C7_DecisionEnds]_vars
    /\ [][C7_NothingAfter]_vars

\* A session rejected in its first round with budget left.
C7_Witness ==
    /\ state = "Rejected"
    /\ attempt = 1
    /\ maxAttempts = MaxAttemptsBound
    /\ genCalls = 1 /\ evalCalls = 1 /\ Len(history) = 1

\* C8: best-attempt selection.  The selected attempt is in the history, its
\* penalty bias + hallucination + (100 - satisfaction) is at most the
\* penalty of every attempt of the history, and no attempt with the same
\* penalty has a lower index.
C8_BestAttempt ==
    history # <<>> =>
        LET best == BestAttempt(history)
            k == best.attempt
        IN  /\ k \in 1..Len(history)
            /\ history[k] = best
            /\ \A j \in 1..Len(history) :
                  /\ Penalties[k] <= Penalties[j]
                  /\ Penalties[j] = Penalties[k] => k <= j
            /\ decision.bestAttemptSelected => decision.selected = k

\* A selection among three attempts of which the last two tie for the
\* minimum.
C8_Witness ==
    /\ decision.bestAttemptSelected
    /\ Len(history) = 3
    /\ Penalties[1] > Penalties[2]
    /\ Penalties[2] = Penalties[3]
    /\ BestAttempt(history).attempt = 2
    /\ decision.selected = 2

\* C9: an exhausted session with a non-empty history returns action reject
\* with bestAttemptSelected = true, never approve or approve_with_warning;
\* three reloop attempts with penalties 60, 45, 70 select attempt 2.
C9_ExhaustedRejects ==
    (state = "Exhausted" /\ history # <<>>) =>
        /\ decision.action = "reject"
        /\ decision.bestAttemptSelected = TRUE
        /\ Penalties = <<60, 45, 70>> => decision.selected = 2

\* Scenario 4.
C9_Witness ==
    /\ state = "Exhausted"
    /\ maxAttempts = 3
    /\ Len(history) = 3
    /\ \A i \in 1..3 : decide(history[i].evaluation) = "reloop"
    /\ Penalties = <<60, 45, 70>>
    /\ decision.action = "reject"
    /\ decision.bestAttemptSelected
    /\ decision.selected = 2

\* C10: bestAttemptSelected is true only for a session that ended through
\* Exhausted; a Decision of an approve, approve_with_warning or reject round
\* has bestAttemptSelected = false and selects the last attempt of the
\* history.
C10_BestFlagOnlyExhausted ==
    /\ decision.bestAttemptSelected => state = "Exhausted"
    /\ state \in {"Approved", "Warned", "Rejected"} =>
          /\ decision.action = RoundAction
          /\ decision.bestAttemptSelected = FALSE
          /\ decision.selected = Len(history)
          /\ LastAttempt.attempt = decision.selected

\* A session approved outright in its second round.
C10_Witness ==
    /\ state = "Approved"
    /\ Len(history) = 2
    /\ decision.action = "approve"
    /\ decision.selected = 2
    /\ ~decision.bestAttemptSelected

(***************************************************************************)
(* Properties of the session with failing calls, checked under SpecCalls.  *)
(***************************************************************************)
\* h is a prefix of g.
IsPrefix(h, g) == Len(h) <= Len(g) /\ \A i \in 1..Len(h) : g[i] = h[i]

\* Every step keeps the attempts recorded so far, in place.
C11_Step == IsPrefix(history, history')

\* C11: the history is append-only (the old history is a prefix of the new
\* one in every step, nothing is deleted), and the attempt indices are
\* 1-based and strictly increasing in history order.
C11_AppendOnly ==
    /\ [][C11_Step]_vars
    /\ [](\A i \in 1..Len(history) :
            /\ history[i].attempt >= 1
            /\ history[i].attempt <= attempt
            /\ \A j \in 1..Len(history) :
                  i < j => history[i].attempt < history[j].attempt)

\* A history of three attempts, the first two discarded.
C11_Witness ==
    /\ Len(history) = 3
    /\ history[1].attempt = 1 /\ history[2].attempt = 2
    /\ history[3].attempt = 3
    /\ state \in {"Approved", "Exhausted"}

\* The order of the steps of a round.
C12_Step ==
    /\ (genCalls' # genCalls) => state = "Generating"
    /\ (evalCalls' # evalCalls) =>
          (state = "Evaluating" /\ genCalls >= attempt)
    /\ (state = "Deciding" /\ state' # "Deciding") =>
          (/\ genCalls >= attempt /\ evalCalls >= Len(history)
           /\ history' = history
           /\ Len(history) >= 1
           /\ LastAttempt.attempt = attempt
           /\ LastAttempt.response = pending)

\* C12: within a round the generation call completes before the evaluation
\* call starts, the evaluation call completes before the decision is
\* computed, and the round's Analysis and Evaluation are in the history when
\* the decision is computed, also for attempts that are later discarded.
C12_RoundOrder ==
    /\ [][C12_Step]_vars
    /\ [](state = "Evaluating" => (pending \in Analyses /\ genCalls >= attempt))
    /\ [](state = "Deciding" =>
            (/\ Len(history) >= 1
             /\ LastAttempt.attempt = attempt
             /\ LastAttempt.response = pending
             /\ evalCalls = Len(history)))

\* A second round being decided with the first attempt discarded.
C12_Witness ==
    /\ state = "Deciding"
    /\ attempt = 2
    /\ Len(history) = 2
    /\ history[1].response # history[2].response
    /\ LastAttempt.response = pending

TerminalStates == {"Approved", "Warned", "Rejected", "Exhausted", "Failed"}

GenerationFailed ==
    state = "Generating" /\ genCalls' = genCalls + 1 /\ state' # "Evaluating"

\* A step taken on an evaluation that failed.
EvaluationFailed ==
    /\ state = "Deciding"
    /\ "error" \in DOMAIN LastAttempt.evaluation
    /\ state' # state

\* What a consumed attempt leads to: the next attempt, or exhaustion.
ConsumesAttempt ==
    IF attempt < maxAttempts
      THEN state' = "Generating" /\ attempt' = attempt + 1
      ELSE state' \in {"Exhausted", "Failed"} /\ attempt' = attempt

C14_AsStatedStep ==
    (GenerationFailed \/ EvaluationFailed) => ConsumesAttempt

C14_Step ==
    /\ GenerationFailed =>
          (ConsumesAttempt /\ history' = history /\ evalCalls' = evalCalls)
    /\ EvaluationFailed => (state' = "Rejected" /\ attempt' = attempt)

MaxResponseLen == 3

\* The evaluator's response text, as a sequence of tokens: an opening and a
\* closing brace, a complete member list of the output format, a member
\* list that lacks some of its fields, and prose.
ResponseTokens == {"{", "}", "full", "part", "prose"}

\* What a call leaves behind: a returned value, a raised exception, or a
\* printed document with an exit code; with whether a client was created
\* and how many model calls were made.
Ret(v, c, n) ==
    [kind |-> "return", value |-> v, clientCreated |-> c, modelCalls |-> n]
Raise(e, c, n) ==
    [kind |-> "raise", exc |-> e, clientCreated |-> c, modelCalls |-> n]
Exit(code, doc, c, n) ==
    [kind |-> "exit", code |-> code, printed |-> doc, clientCreated |-> c,
     modelCalls |-> n]
NoDocument == [nothing |-> TRUE]

\* check_bias without a credential (lines 35-39).
MissingKeyEvaluation ==
    [error |-> "GEMINI_API_KEY not set", finalDecision |-> "reject"]

\* The fallback record of check_bias (lines 86-118): five scores of 50, no
\* credibility score, finalDecision.action "warn".
FallbackEvaluation ==
    [biasDetection |->
        [score |-> 50, level |-> "unknown", recommendation |-> "verify"],
     hallucinationDetection |->
        [score |-> 50, level |-> "unknown", recommendation |-> "verify"],
     citationQuality |-> [score |-> 50, level |-> "fair"],
     accuracyVerification |-> [score |-> 50, level |-> "fair"],
     overallSatisfaction |-> [score |-> 50, level |-> "fair"],
     finalDecision |-> "warn"]

\* The first field of the fallback record is 'eval_' + str(int(os.time.time()));
\* the os module has no attribute time, so building the record raises
\* AttributeError.
OsHasTime == FALSE

\* A document with every field of the output format, with the action the
\* model chose.
FullDocument(a) ==
    [biasDetection |-> [score |-> 10, level |-> "minimal"],
     hallucinationDetection |-> [score |-> 3, level |-> "minimal"],
     citationQuality |-> [score |-> 85, level |-> "excellent"],
     accuracyVerification |-> [score |-> 90, level |-> "excellent"],
     credibilityAssessment |-> [score |-> 80, level |-> "high"],
     overallSatisfaction |-> [score |-> 88, level |-> "excellent"],
     finalDecision |-> a]

\* A document in which the model left fields out.
PartialDocument(a) ==
    [biasDetection |-> [score |-> 10, level |-> "minimal"],
     finalDecision |-> a]

\* The document {}.
EmptyDocument == [k \in {} |-> 0]

\* re.search(r'\{[\s\S]*\}', text): the first opening brace, and greedily
\* the last closing brace after it.
Opens(t) == {i \in 1..Len(t) : t[i] = "{"}
FirstOpen(t) == CHOOSE i \in Opens(t) : \A j \in Opens(t) : i <= j
Closes(t) == {j \in 1..Len(t) : t[j] = "}" /\ Opens(t) # {} /\ j > FirstOpen(t)}
LastClose(t) == CHOOSE j \in Closes(t) : \A k \in Closes(t) : k <= j
json_match(t) == Closes(t) # {}
MatchGroup(t) == SubSeq(t, FirstOpen(t), LastClose(t))

\* json.loads of the matched block: it decodes when the block is one
\* object, and raises JSONDecodeError otherwise (prose or a second object
\* inside the braces).
Decodes(g) ==
    \/ g = <<"{", "}">>
    \/ g = <<"{", "full", "}">>
    \/ g = <<"{", "part", "}">>
json_loads(g, a) ==
    IF g = <<"{", "}">> THEN EmptyDocument
    ELSE IF g = <<"{", "full", "}">> THEN FullDocument(a)
    ELSE PartialDocument(a)

\* A variant of the except branch that fails open.
ExceptResultOpen(c, n) == Ret(FallbackEvaluation, c, n)

\* The except branch of check_bias (lines 120-127).
ExceptResult(c, n) == Ret(ErrorEvaluation, c, n)

\* check_bias(voteverify_result), lines 25-127.
check_bias(i) ==
    IF ~i.apiKey THEN Ret(MissingKeyEvaluation, FALSE, 0)
    ELSE IF i.clientRaises THEN ExceptResult(FALSE, 0)
    ELSE IF ~i.isDict THEN ExceptResult(TRUE, 0)
    ELSE IF i.callRaises THEN ExceptResult(TRUE, 1)
    ELSE IF json_match(i.text)
      THEN IF Decodes(MatchGroup(i.text))
             THEN Ret(json_loads(MatchGroup(i.text), i.modelAction), TRUE, 1)
             ELSE ExceptResult(TRUE, 1)
    ELSE IF OsHasTime THEN Ret(FallbackEvaluation, TRUE, 1)
    ELSE ExceptResult(TRUE, 1)

\* A variant that builds the client before it looks at the key.
VotifyAnalyzer_init_client_first(i) ==
    IF i.clientRaises THEN Raise("ClientError", FALSE, 0)
    ELSE IF ~(i.argKey \/ i.envKey) THEN Raise("ValueError", TRUE, 0)
    ELSE Ret("analyzer", TRUE, 0)

\* VotifyAnalyzer.__init__(api_key), test_votify.py lines 38-54.
VotifyAnalyzer_init(i) ==
    IF ~(i.argKey \/ i.envKey) THEN Raise("ValueError", FALSE, 0)
    ELSE IF i.clientRaises THEN Raise("ClientError", FALSE, 0)
    ELSE Ret("analyzer", TRUE, 0)

\* The except branch of the main of check_bias.py (lines 148-153).
BiasMainError == [error |-> "Bias check failed", finalDecision |-> "reject"]
NoInputFile == [error |-> "No input file provided"]

\* check_bias.py run as a script (lines 130-153).
check_bias_main(i) ==
    IF ~i.hasArg THEN Exit(1, NoInputFile, FALSE, 0)
    ELSE IF ~i.fileOk THEN Exit(1, BiasMainError, FALSE, 0)
    ELSE LET r == check_bias(i)
         IN  Exit(0, r.value, r.clientCreated, r.modelCalls)

\* validate_promise(promise_data), validate_promise.py lines 17-59.  The
\* analyzer it calls is imported from a module that is not in the
\* repository: its run either returns a result or raises.
validate_promise(i) ==
    IF ~i.apiKey
      THEN Ret([error |-> "GEMINI_API_KEY not set", primary_score |-> 0,
                detailed_score |-> 0], FALSE, 0)
    ELSE IF i.callRaises
      THEN Ret([success |-> FALSE, error |-> "analysis failed",
                primary_score |-> 0, detailed_score |-> 0], TRUE, 1)
    ELSE Ret([success |-> TRUE, primary_score |-> 3, detailed_score |-> 65,
              confidence |-> "unknown", analysis |-> "text"], TRUE, 1)

ValidateMainError == [success |-> FALSE, error |-> "Validation failed"]

\* validate_promise.py run as a script (lines 8-14 and 62-88).  Its two
\* imports at the top resolve or not with the installation; when they do
\* not, the interpreter ends with a traceback and prints no document.
validate_promise_main(i) ==
    IF ~i.importsResolve THEN Exit(1, NoDocument, FALSE, 0)
    ELSE IF ~i.hasArg THEN Exit(1, NoInputFile, FALSE, 0)
    ELSE IF ~i.fileOk THEN Exit(1, ValidateMainError, FALSE, 0)
    ELSE LET r == validate_promise(i)
         IN  Exit(0, r.value, r.clientCreated, r.modelCalls)

\* The actions a decoded document can carry: check_bias returns the
\* model's document as it is, so also a word outside the four actions.
ModelActions == Actions \cup {"warn"}

\* The response texts of up to n tokens.
RECURSIVE ResponseTexts(_)
ResponseTexts(n) ==
    IF n = 0 THEN {<<>>}
    ELSE LET shorter == ResponseTexts(n - 1)
         IN  shorter \cup {Append(t, k) : t \in shorter, k \in ResponseTokens}

(***************************************************************************)
(* VotifyAnalyzer.batch_analyze (test_votify.py lines 270-304).            *)
(***************************************************************************)
MaxBatch == 3

\* An input item: its promise, what the analysis of it does (returns,
\* raises), or an item that lacks the 'promise' or 'voting_record' key;
\* score is what the model says about it.
BatchItems ==
    [promise : {"A", "B"}, score : {35, 75},
     outcome : {"ok", "raises", "malformed"}]

RECURSIVE Batches(_)
Batches(n) ==
    IF n = 0 THEN {<<>>}
    ELSE LET shorter == Batches(n - 1)
         IN  shorter \cup {Append(b, i) : b \in shorter, i \in BatchItems}

\* What analyze_promise returns for an item.
AnalysisOf(item) == [of |-> item.promise, primary_score |-> item.score]

\* A variant that skips the items whose analysis raises.
RECURSIVE batch_loop_skipping(_, _, _)
batch_loop_skipping(items, results, calls) ==
    IF items = <<>>
      THEN [kind |-> "return", value |-> results, calls |-> calls]
    ELSE LET item == Head(items)
         IN  IF item.outcome = "malformed"
               THEN batch_loop_skipping(Tail(items), results, calls)
             ELSE IF item.outcome = "raises"
               THEN batch_loop_skipping(Tail(items), results,
                                        Append(calls, item.promise))
             ELSE batch_loop_skipping(
                      Tail(items),
                      Append(results, [promise |-> item.promise,
                                       analysis |-> AnalysisOf(item)]),
                      Append(calls, item.promise))

\* The loop of batch_analyze (lines 287-302) over the items still to do,
\* with the results so far and the analysis calls made so far; item['...']
\* of a missing key raises KeyError before the call.
RECURSIVE batch_loop(_, _, _)
batch_loop(items, results, calls) ==
    IF items = <<>>
      THEN [kind |-> "return", value |-> results, calls |-> calls]
    ELSE LET item == Head(items)
         IN  IF item.outcome = "malformed"
               THEN [kind |-> "raise", exc |-> "KeyError", calls |-> calls]
             ELSE IF item.outcome = "raises"
               THEN [kind |-> "raise", exc |-> "APIError",
                     calls |-> Append(calls, item.promise)]
             ELSE batch_loop(
                      Tail(items),
                      Append(results, [promise |-> item.promise,
                                       analysis |-> AnalysisOf(item)]),
                      Append(calls, item.promise))

\* batch_analyze(candidate_name, promises_and_records), lines 270-304.
batch_analyze(items) == batch_loop(items, <<>>, <<>>)

\* One call with its input and environment chosen; the session is idle.
InitOps ==
    /\ ev = IdleEval
    /\ result = NotDecided
    /\ SessionIdle
    /\ pc = "called"
    /\ out = NoOutput
    /\ NoPool
    /\ \/ \E op \in {"check_bias", "check_bias_main"},
             k \in BOOLEAN, cr \in BOOLEAN, d \in BOOLEAN, f \in BOOLEAN,
             t \in ResponseTexts(MaxResponseLen), a \in ModelActions :
             inp = [op |-> op, apiKey |-> k, clientRaises |-> cr,
                    isDict |-> d, callRaises |-> f, text |-> t,
                    modelAction |-> a, hasArg |-> TRUE, fileOk |-> TRUE]
       \/ \E ha \in BOOLEAN, fo \in BOOLEAN :
             /\ ~(ha /\ fo)
             /\ inp = [op |-> "check_bias_main", apiKey |-> TRUE,
                       clientRaises |-> FALSE, isDict |-> TRUE,
                       callRaises |-> FALSE, text |-> <<>>,
                       modelAction |-> "approve", hasArg |-> ha,
                       fileOk |-> fo]
       \/ \E ak \in BOOLEAN, ek \in BOOLEAN, cr \in BOOLEAN :
             inp = [op |-> "VotifyAnalyzer_init", argKey |-> ak,
                    envKey |-> ek, clientRaises |-> cr]
       \/ \E ir \in BOOLEAN, ha \in BOOLEAN, fo \in BOOLEAN, k \in BOOLEAN,
             f \in BOOLEAN :
             inp = [op |-> "validate_promise_main", importsResolve |-> ir,
                    hasArg |-> ha, fileOk |-> fo, apiKey |-> k,
                    callRaises |-> f]
       \/ \E b \in Batches(MaxBatch) :
             inp = [op |-> "batch_analyze", items |-> b]

Called(op) == pc = "called" /\ inp.op = op

Finish(o) ==
    /\ out' = o
    /\ pc' = "done"
    /\ UNCHANGED <<cancel, sessions, inp, ev, result, state, attempt,
                   maxAttempts, history,
                   pending, decision, genCalls, evalCalls>>

CheckBias == Called("check_bias") /\ Finish(check_bias(inp))
AnalyzerInit == Called("VotifyAnalyzer_init") /\ Finish(VotifyAnalyzer_init(inp))
CheckBiasMain == Called("check_bias_main") /\ Finish(check_bias_main(inp))
ValidatePromiseMain ==
    Called("validate_promise_main") /\ Finish(validate_promise_main(inp))

BatchAnalyze == Called("batch_analyze") /\ Finish(batch_analyze(inp.items))

NextOps ==
    \/ CheckBias
    \/ AnalyzerInit
    \/ CheckBiasMain
    \/ ValidatePromiseMain
    \/ BatchAnalyze
SpecOps == InitOps /\ [][NextOps]_vars

Done(op) == pc = "done" /\ inp.op = op

(***************************************************************************)
(* The response parser VotifyAnalyzer._parse_response (test_votify.py      *)
(* lines 153-190).  A text is a sequence of pieces: words, blanks,         *)
(* newlines and the denominators "/5" and "/100".                          *)
(***************************************************************************)
MaxTextLen == 4

\* What the texts are made of: the three score labels, the two
\* denominators, a number, a blank and a newline.
TextAtoms ==
    {"Primary Score:", "Match Score:", "Detailed Score:", "/5", "/100", "3",
     " ", "\n"}

PrimaryLabel == <<"Primary", " ", "Score:">>
MatchLabel == <<"Match", " ", "Score:">>
DetailedLabel == <<"Detailed", " ", "Score:">>

\* The pieces of an atom: a label is two words with a blank between them.
Pieces(a) ==
    IF a = "Primary Score:" THEN PrimaryLabel
    ELSE IF a = "Match Score:" THEN MatchLabel
    ELSE IF a = "Detailed Score:" THEN DetailedLabel
    ELSE <<a>>

\* The texts of up to n atoms, as sequences of pieces.
RECURSIVE Texts(_)
Texts(n) ==
    IF n = 0 THEN {<<>>}
    ELSE LET shorter == Texts(n - 1)
         IN  shorter \cup {t \o Pieces(a) : t \in shorter, a \in TextAtoms}

\* pat in line.
Contains(line, pat) ==
    \E i \in 1..(Len(line) - Len(pat) + 1) :
        SubSeq(line, i, i + Len(pat) - 1) = pat

\* line.split(sep)[0]: what stands before the first sep (the whole line
\* when sep is not in it).
SplitFirst(line, sep) ==
    IF Contains(line, sep)
      THEN LET i == CHOOSE k \in 1..Len(line) :
                      /\ SubSeq(line, k, k + Len(sep) - 1) = sep
                      /\ \A j \in 1..(k - 1) :
                            SubSeq(line, j, j + Len(sep) - 1) # sep
           IN  SubSeq(line, 1, i - 1)
      ELSE line

\* response_text.split('\n'): always at least one line.
RECURSIVE SplitLines(_)
SplitLines(t) ==
    IF Contains(t, <<"\n">>)
      THEN LET head == SplitFirst(t, <<"\n">>)
           IN  <<head>> \o SplitLines(SubSeq(t, Len(head) + 2, Len(t)))
      ELSE <<t>>

\* s.strip().split(): the maximal runs of pieces that are not blanks.
RECURSIVE split(_)
split(l) ==
    IF l = <<>> THEN <<>>
    ELSE IF Head(l) = " " THEN split(Tail(l))
    ELSE LET word == SplitFirst(l, <<" ">>)
         IN  <<word>> \o split(SubSeq(l, Len(word) + 1, Len(l)))

\* The score fields hold None until a score line is read.
None == <<>>

\* The record _parse_response starts from (lines 162-171).
EmptyResult(t) ==
    [raw_response |-> t, summary |-> "", primary_score |-> None,
     detailed_score |-> None, confidence |-> "", analysis |-> "",
     evidence |-> <<>>, verdict |-> <<>>]

\* line.split(denominator)[0].strip().split(): the words before the
\* denominator.
WordsBefore(line, denominator) == split(SplitFirst(line, <<denominator>>))

\* words[-1]: the last word; it raises IndexError on an empty list.
Last(words) == words[Len(words)]

\* One turn of the loop over the lines (lines 176-188), on the record so
\* far; an IndexError ends the loop.
ParseLine(st, line) ==
    IF st.raised THEN st
    ELSE IF Contains(line, PrimaryLabel) \/ Contains(line, MatchLabel)
      THEN IF Contains(line, <<"/5">>)
             THEN IF WordsBefore(line, "/5") = <<>>
                    THEN [st EXCEPT !.raised = TRUE]
                    ELSE [st EXCEPT !.result.primary_score =
                                        Last(WordsBefore(line, "/5"))]
             ELSE st
    ELSE IF Contains(line, DetailedLabel)
      THEN IF Contains(line, <<"/100">>)
             THEN IF WordsBefore(line, "/100") = <<>>
                    THEN [st EXCEPT !.raised = TRUE]
                    ELSE [st EXCEPT !.result.detailed_score =
                                        Last(WordsBefore(line, "/100"))]
             ELSE st
    ELSE st

RECURSIVE ParseLines(_, _)
ParseLines(st, lines) ==
    IF lines = <<>> THEN st
    ELSE ParseLines(ParseLine(st, Head(lines)), Tail(lines))

\* _parse_response(response_text), lines 153-190.
_parse_response(t) ==
    LET st == ParseLines([raised |-> FALSE, result |-> EmptyResult(t)],
                         SplitLines(t))
    IN  IF st.raised THEN Raise("IndexError", FALSE, 0)
        ELSE Ret(st.result, FALSE, 0)

InitParse ==
    /\ ev = IdleEval
    /\ result = NotDecided
    /\ SessionIdle
    /\ pc = "called"
    /\ out = NoOutput
    /\ NoPool
    /\ \E t \in Texts(MaxTextLen) :
          inp = [op |-> "_parse_response", response_text |-> t]

ParseResponse ==
    Called("_parse_response") /\ Finish(_parse_response(inp.response_text))

NextParse == ParseResponse
SpecParse == InitParse /\ [][NextParse]_vars

(***************************************************************************)
(* Properties of the single calls.                                         *)
(***************************************************************************)
\* The evaluation capability cannot be used.
EvaluatorUnusable(i) == ~i.apiKey \/ i.clientRaises \/ i.callRaises

\* C15: when the evaluation capability cannot be used (credential missing,
\* client construction or model call raises), check_bias raises nothing and
\* returns a record with an error reason and finalDecision.action = reject;
\* no record with an error reason carries another action.
C15_FailClosed ==
    Done("check_bias") =>
        /\ out.kind = "return"
        /\ EvaluatorUnusable(inp) => "error" \in DOMAIN out.value
        /\ "error" \in DOMAIN out.value => out.value.finalDecision = "reject"

\* The model call raises although the model would have approved.
C15_Witness ==
    /\ Done("check_bias")
    /\ inp.apiKey /\ ~inp.clientRaises /\ inp.isDict /\ inp.callRaises
    /\ inp.modelAction = "approve"
    /\ out.kind = "return"
    /\ out.modelCalls = 1
    /\ "error" \in DOMAIN out.value
    /\ out.value.finalDecision = "reject"

\* The call succeeded and its text holds no decodable block.
ParseFailure(i) ==
    /\ i.apiKey /\ ~i.clientRaises /\ i.isDict /\ ~i.callRaises
    /\ ~(json_match(i.text) /\ Decodes(MatchGroup(i.text)))

\* C16: when the evaluator's call succeeds but its text has no decodable
\* block (no braces, or a block that is not valid JSON), check_bias returns
\* the neutral default record, without an error field and without
\* finalDecision.action = reject.
C16_ParseFailureNeutral ==
    (Done("check_bias") /\ ParseFailure(inp)) =>
        /\ out.kind = "return"
        /\ "error" \notin DOMAIN out.value
        /\ out.value.finalDecision # "reject"
        /\ out.value.biasDetection.score = 50

ScoreFields ==
    {"biasDetection", "hallucinationDetection", "citationQuality",
     "accuracyVerification", "credibilityAssessment", "overallSatisfaction"}

\* C17: every record check_bias returns, on every path, has a score for
\* each of the six dimensions.
C17_AllScoresPresent ==
    (Done("check_bias") /\ out.kind = "return") =>
        ScoreFields \subseteq DOMAIN out.value

ResultFields ==
    {"raw_response", "summary", "primary_score", "detailed_score",
     "confidence", "analysis", "evidence", "verdict"}

\* C18: _parse_response raises for no text and returns a record with all
\* its fields.
C18_ParserTotal ==
    Done("_parse_response") =>
        (out.kind = "return" /\ DOMAIN out.value = ResultFields)

Mains == {"check_bias_main", "validate_promise_main"}

\* The failures a run cannot recover from.
Unrecoverable(i) ==
    \/ ~i.hasArg
    \/ ~i.fileOk
    \/ ~i.apiKey
    \/ i.callRaises

\* C20: the command-line wrappers exit non-zero on every unrecoverable
\* failure (no input file argument, malformed input file, missing
\* credential, failed model call); no document with an error field is
\* printed with exit code 0.
C20_ExitCodes ==
    (pc = "done" /\ inp.op \in Mains) =>
        /\ out.kind = "exit"
        /\ Unrecoverable(inp) => out.code # 0
        /\ out.code = 0 => "error" \notin DOMAIN out.printed

(***************************************************************************)
(* Further properties of the session with failing calls (SpecCalls).       *)
(***************************************************************************)
\* The round's evaluation is the evaluator's forced reject.
ForcedReject ==
    /\ state = "Deciding"
    /\ "error" \in DOMAIN LastAttempt.evaluation
    /\ LastAttempt.evaluation.finalDecision = "reject"

C25_Step ==
    (ForcedReject /\ state' # state) =>
        /\ state' = "Rejected"
        /\ attempt' = attempt
        /\ genCalls' = genCalls
        /\ evalCalls' = evalCalls
        /\ history' = history
        /\ decision'.action = "reject"
        /\ ~decision'.bestAttemptSelected

\* C25: when the evaluator returns its forced reject for attempt k, the
\* session ends Rejected in that round, with bestAttemptSelected = false,
\* and starts no attempt k+1, also when k < maxAttempts.
C25_EvaluationFailureStops ==
    /\ [][C25_Step]_vars
    /\ []((state \in TerminalStates /\ history # <<>>
           /\ "error" \in DOMAIN LastAttempt.evaluation) =>
            (/\ state = "Rejected"
             /\ LastAttempt.attempt = attempt
             /\ ~decision.bestAttemptSelected))

\* The evaluation call fails on attempt 1 of 3.
C25_Witness ==
    /\ state = "Rejected"
    /\ maxAttempts = 3
    /\ attempt = 1
    /\ Len(history) = 1
    /\ "error" \in DOMAIN history[1].evaluation
    /\ genCalls = 1 /\ evalCalls = 1
    /\ ~decision.bestAttemptSelected

(***************************************************************************)
(* The decision rules against the score bands of the rubric (SpecDecide).  *)
(***************************************************************************)
\* The dimensions other than bias and hallucination are in the approve
\* range and nothing else was found.
OthersApprove(e) ==
    /\ e.citationQuality >= 70
    /\ e.accuracy >= 70
    /\ e.satisfaction >= 80
    /\ ~e.criticalErrors
    /\ ~e.ethicalViolations

\* C26: every score the bands call acceptable with a flag (bias 21-40,
\* hallucination 11-30), with all other dimensions in the approve range,
\* yields approve_with_warning; every score the bands mark as requiring
\* reloop (bias 71-100, hallucination 61-100, satisfaction 0-39) yields
\* reloop.
C26_RulesMatchBands ==
    Decided =>
        /\ (ev.bias \in 21..40 /\ ev.hallucination <= 5 /\ OthersApprove(ev))
              => result = "approve_with_warning"
        /\ (ev.hallucination \in 11..30 /\ ev.bias <= 20 /\ OthersApprove(ev))
              => result = "approve_with_warning"
        /\ (ev.bias \in 71..100 \/ ev.hallucination \in 61..100
              \/ ev.satisfaction \in 0..39)
              => result = "reloop"

\* C27: the finalDecision.action of every record check_bias returns, on
\* every path, is one of approve, approve_with_warning, reloop, reject.
C27_ActionInRange ==
    (Done("check_bias") /\ out.kind = "return") =>
        /\ "finalDecision" \in DOMAIN out.value
        /\ out.value.finalDecision \in Actions

\* The numeric token of the texts.
NumericTokens == {<<"3">>}

\* C28: the value stored for a score is the numeric token that stands
\* immediately before the denominator, never a non-numeric token such as
\* the label itself; a score whose label is on no line stays at its default.
C28_NumericToken ==
    (Done("_parse_response") /\ out.kind = "return") =>
        /\ out.value.primary_score \in NumericTokens \cup {None}
        /\ out.value.detailed_score \in NumericTokens \cup {None}
        /\ (~Contains(inp.response_text, PrimaryLabel)
            /\ ~Contains(inp.response_text, MatchLabel))
              => out.value.primary_score = None
        /\ ~Contains(inp.response_text, DetailedLabel)
              => out.value.detailed_score = None

\* The promises of the first n items, in input order.
PromisesOf(items, n) == [i \in 1..n |-> items[i].promise]

\* C29: batch_analyze makes exactly one analysis call per input item, in
\* input order, and returns a list of the same length whose i-th entry
\* pairs the i-th input's promise with its own analysis; when the analysis
\* of an item raises, the exception propagates and no list is returned.
C29_BatchInOrder ==
    Done("batch_analyze") =>
        /\ out.kind \in {"return", "raise"}
        /\ out.kind = "return" =>
              /\ out.calls = PromisesOf(inp.items, Len(inp.items))
              /\ Len(out.value) = Len(inp.items)
              /\ \A i \in 1..Len(inp.items) :
                    /\ out.value[i].promise = inp.items[i].promise
                    /\ out.value[i].analysis = AnalysisOf(inp.items[i])
        /\ (\E i \in 1..Len(inp.items) : inp.items[i].outcome # "ok") =>
              /\ out.kind = "raise"
              /\ "value" \notin DOMAIN out
              /\ out.calls = PromisesOf(inp.items, Len(out.calls))

\* The third analysis raises after two that returned.
C29_Witness ==
    /\ Done("batch_analyze")
    /\ Len(inp.items) = 3
    /\ inp.items[1].outcome = "ok" /\ inp.items[2].outcome = "ok"
    /\ inp.items[1].promise # inp.items[2].promise
    /\ inp.items[3].outcome = "raises"
    /\ out.kind = "raise"
    /\ Len(out.calls) = 3

(***************************************************************************)
(* The operations that take a promise record: enrich_promise_with_stock_   *)
(* data (stock_analyzer.py lines 184-247), analyze_backend_promise         *)
(* (test_votify.py lines 192-268) and validate_promise.  out.record is the *)
(* caller's record as the call leaves it.                                  *)
(***************************************************************************)
MaxIndustries == 4
AnalyzedIndustries == 3

Predictions == {"positive", "negative", "neutral"}

\* What the data source has for an industry after the promise date: a
\* 6-month average change (its sign is what the code looks at) or nothing,
\* a 12-month average change or nothing.
MarketData ==
    {m \in [avail6 : BOOLEAN, change6 : {-1, 0, 1}, avail12 : BOOLEAN] :
        ~m.avail6 => m.change6 = 0}

NoImpact == [available |-> FALSE]
Impact(c) == [available |-> TRUE, averageChange |-> c]

\* analyze_industry_impact(industry_name, promise_date), lines 126-181:
\* each horizon is a record with the average change, or None.
analyze_industry_impact(name, m) ==
    [industry |-> name,
     impact6mo |-> IF m.avail6 THEN Impact(m.change6) ELSE NoImpact,
     impact12mo |-> IF m.avail12 THEN Impact(1) ELSE NoImpact,
     dataSource |-> "yfinance"]

\* Lines 217-226: the direction of the 6-month change against the
\* prediction; None when there is no 6-month change.
predictionAccuracy(predicted, impact6mo) ==
    IF ~impact6mo.available THEN "None"
    ELSE IF \/ (predicted = "positive" /\ impact6mo.averageChange > 0)
            \/ (predicted = "negative" /\ impact6mo.averageChange < 0)
      THEN "correct"
    ELSE IF \/ (predicted = "positive" /\ impact6mo.averageChange < 0)
            \/ (predicted = "negative" /\ impact6mo.averageChange > 0)
      THEN "incorrect"
    ELSE "mixed"

\* The entry appended for an industry (lines 228-232).
ImpactEntry(industry, data) ==
    [industry |-> data.industry, impact6mo |-> data.impact6mo,
     impact12mo |-> data.impact12mo, dataSource |-> data.dataSource,
     predictedImpact |-> industry.predictedImpact,
     predictionAccuracy |->
         predictionAccuracy(industry.predictedImpact, data.impact6mo)]

\* Line 234 formats both changes with ':+.2f'; formatting None raises
\* TypeError.
PrintRaises(data) == ~data.impact6mo.available \/ ~data.impact12mo.available

\* The loop over affected_industries[:3] (lines 203-236), on the
\* industries still to do with their market data, and the entries so far.
RECURSIVE enrich_loop(_, _, _)
enrich_loop(industries, market, entries) ==
    IF industries = <<>> THEN [raised |-> FALSE, entries |-> entries]
    ELSE LET data == analyze_industry_impact(Head(industries).name,
                                             Head(market))
         IN  IF data.impact6mo.available \/ data.impact12mo.available
               THEN IF PrintRaises(data)
                      THEN [raised |-> TRUE, entries |-> entries]
                      ELSE enrich_loop(
                               Tail(industries), Tail(market),
                               Append(entries,
                                      ImpactEntry(Head(industries), data)))
               ELSE enrich_loop(Tail(industries), Tail(market), entries)

FirstN(q, n) == SubSeq(q, 1, IF Len(q) < n THEN Len(q) ELSE n)

\* The record with the key actualMarketImpact set (lines 239-243).
WithMarketImpact(promise, entries) ==
    [promise |-> promise.promise, date |-> promise.date,
     affectedIndustries |-> promise.affectedIndustries,
     actualMarketImpact |->
         [industries |-> entries, dataSource |-> "yfinance (Yahoo Finance)"]]

\* The outcome of a call on a caller's record.
RetRecord(v, rec) == [kind |-> "return", value |-> v, record |-> rec]
RaiseRecord(e, rec) == [kind |-> "raise", exc |-> e, record |-> rec]

\* enrich_promise_with_stock_data(promise), lines 184-247: the key is set
\* on the caller's own dict, which is also what is returned.
enrich_promise_with_stock_data(promise, market) ==
    IF promise.affectedIndustries = <<>> THEN RetRecord(promise, promise)
    ELSE LET loop == enrich_loop(
                         FirstN(promise.affectedIndustries,
                                AnalyzedIndustries),
                         FirstN(market, AnalyzedIndustries), <<>>)
         IN  IF loop.raised THEN RaiseRecord("TypeError", promise)
             ELSE RetRecord(WithMarketImpact(promise, loop.entries),
                            WithMarketImpact(promise, loop.entries))

\* analyze_backend_promise(backend_promise), test_votify.py lines 192-268:
\* it reads the record with get and puts backend_metadata on the result of
\* the analysis, a dict of its own.
analyze_backend_promise(promise, raises) ==
    IF raises THEN RaiseRecord("APIError", promise)
    ELSE RetRecord([primary_score |-> None, detailed_score |-> None,
                    backend_metadata |->
                        [real_sources_count |-> 0,
                         initial_status |-> "unknown"]],
                   promise)

\* validate_promise(promise_data) on the caller's record: it hands the
\* record to the analyzer and builds a dict of its own (lines 36-59).
validate_promise_record(promise, i) ==
    RetRecord(validate_promise(i).value, promise)

\* The industry lists of up to n industries, with their market data; the
\* industries after the third are never looked at, one stands for all.
RECURSIVE IndustryLists(_)
IndustryLists(n) ==
    IF n = 0 THEN {[industries |-> <<>>, market |-> <<>>]}
    ELSE LET shorter == IndustryLists(n - 1)
         IN  shorter \cup
             {[industries |->
                   Append(l.industries,
                          [name |-> Len(l.industries) + 1,
                           predictedImpact |-> p]),
               market |-> Append(l.market, m)] :
              l \in {x \in shorter : Len(x.industries) = n - 1},
              p \in IF n > AnalyzedIndustries THEN {"positive"}
                                               ELSE Predictions,
              m \in IF n > AnalyzedIndustries
                      THEN {[avail6 |-> TRUE, change6 |-> 1,
                             avail12 |-> TRUE]}
                      ELSE MarketData}

PromiseRecord(industries) ==
    [promise |-> "text", date |-> "2021-01-20",
     affectedIndustries |-> industries]

InitRecords ==
    /\ ev = IdleEval
    /\ result = NotDecided
    /\ SessionIdle
    /\ pc = "called"
    /\ out = NoOutput
    /\ NoPool
    /\ \E l \in IndustryLists(MaxIndustries) :
          \/ inp = [op |-> "enrich_promise_with_stock_data",
                    promise |-> PromiseRecord(l.industries),
                    market |-> l.market]
          \/ /\ Len(l.industries) <= 1
             /\ \E k \in BOOLEAN, f \in BOOLEAN :
                   \/ inp = [op |-> "analyze_backend_promise",
                             promise |-> PromiseRecord(l.industries),
                             callRaises |-> f]
                   \/ inp = [op |-> "validate_promise",
                             promise |-> PromiseRecord(l.industries),
                             apiKey |-> k, callRaises |-> f]

EnrichPromise ==
    /\ Called("enrich_promise_with_stock_data")
    /\ Finish(enrich_promise_with_stock_data(inp.promise, inp.market))
AnalyzeBackendPromise ==
    /\ Called("analyze_backend_promise")
    /\ Finish(analyze_backend_promise(inp.promise, inp.callRaises))
ValidatePromise ==
    /\ Called("validate_promise")
    /\ Finish(validate_promise_record(inp.promise, inp))

NextRecords == EnrichPromise \/ AnalyzeBackendPromise \/ ValidatePromise
SpecRecords == InitRecords /\ [][NextRecords]_vars

RecordOps ==
    {"enrich_promise_with_stock_data", "analyze_backend_promise",
     "validate_promise"}

\* C23: every operation that takes a promise record leaves every field of
\* the caller's record unchanged and adds no field to it.
C23_RecordUnchanged ==
    (pc = "done" /\ inp.op \in RecordOps) => out.record = inp.promise

\* The industries among the first three for which a horizon has data.
WithData(i) ==
    {k \in 1..Len(i.market) :
        /\ k <= AnalyzedIndustries
        /\ (i.market[k].avail6 \/ i.market[k].avail12)}

\* The prediction accuracy the 6-month change calls for.
ExpectedAccuracy(predicted, m) ==
    IF ~m.avail6 THEN "None"
    ELSE IF predicted = "positive" /\ m.change6 > 0 THEN "correct"
    ELSE IF predicted = "negative" /\ m.change6 < 0 THEN "correct"
    ELSE IF predicted = "positive" /\ m.change6 < 0 THEN "incorrect"
    ELSE IF predicted = "negative" /\ m.change6 > 0 THEN "incorrect"
    ELSE "mixed"

\* C30: enrich_promise_with_stock_data does not raise and attaches
\* actualMarketImpact for every combination of data availability, with an
\* entry for each of the first three industries that has data on at least
\* one horizon, and predictionAccuracy from the 6-month change (absent when
\* only the 12-month horizon exists).
C30_EnrichTotal ==
    Done("enrich_promise_with_stock_data") =>
        /\ out.kind = "return"
        /\ "actualMarketImpact" \in DOMAIN out.value
        /\ LET entries == out.value.actualMarketImpact.industries
           IN  /\ {entries[j].industry : j \in 1..Len(entries)} = WithData(inp)
               /\ \A j \in 1..Len(entries) :
                     entries[j].predictionAccuracy =
                         ExpectedAccuracy(
                             entries[j].predictedImpact,
                             inp.market[entries[j].industry])

(***************************************************************************)
(* CombinedAnalysisAggregator.aggregate (spec 4.5): the overall score is   *)
(* the mean of the chosen attempts' detailed scores, kept exact as a       *)
(* fraction; the overall rating is its band.                               *)
(***************************************************************************)
MaxPromises == 2

\* The detailed scores the decision sets are drawn from: the ends of the
\* bands of the rubric (system_prompt.py lines 41-47).
DetailedScores == {0, 19, 20, 40, 75, 89, 90, 100}

RECURSIVE DecisionSets(_)
DecisionSets(n) ==
    IF n = 0 THEN {<<>>}
    ELSE LET shorter == DecisionSets(n - 1)
         IN  shorter \cup
             {Append(d, [detailed_score |-> x]) :
                  d \in shorter, x \in DetailedScores}

RECURSIVE SumScores(_)
SumScores(d) ==
    IF d = <<>> THEN 0 ELSE Head(d).detailed_score + SumScores(Tail(d))

\* A variant that weighs the first promise only.
MeanOfFirst(d) == [num |-> d[1].detailed_score, den |-> 1]

\* The arithmetic mean, each promise weighted equally.
Mean(d) == [num |-> SumScores(d), den |-> Len(d)]

\* The band of a score num/den: 5 from 90, 4 from 75, 3 from 40, 2 from
\* 20, 1 below.
overallRating(q) ==
    IF q.num >= 90 * q.den THEN 5
    ELSE IF q.num >= 75 * q.den THEN 4
    ELSE IF q.num >= 40 * q.den THEN 3
    ELSE IF q.num >= 20 * q.den THEN 2
    ELSE 1

aggregate(d) ==
    [promisesAnalyzed |-> Len(d), overallScore |-> Mean(d),
     overallRating |-> overallRating(Mean(d))]

NotAggregated == [promisesAnalyzed |-> 0]

\* Two non-empty decision sets are chosen; the first is aggregated twice,
\* the second once.
InitAggregate ==
    /\ ev = IdleEval
    /\ result = NotDecided
    /\ SessionIdle
    /\ pc = "called"
    /\ NoPool
    /\ \E a \in DecisionSets(MaxPromises), b \in DecisionSets(MaxPromises) :
          /\ a # <<>> /\ b # <<>>
          /\ inp = [op |-> "aggregate", decisions |-> a, others |-> b]
    /\ out = [first |-> NotAggregated, again |-> NotAggregated,
              other |-> NotAggregated]

Aggregate ==
    /\ Called("aggregate")
    /\ out' = [out EXCEPT !.first = aggregate(inp.decisions),
                          !.other = aggregate(inp.others)]
    /\ pc' = "aggregated"
    /\ UNCHANGED <<cancel, sessions, inp, ev, result, state, attempt,
                   maxAttempts, history, pending, decision, genCalls,
                   evalCalls>>

AggregateAgain ==
    /\ pc = "aggregated"
    /\ out' = [out EXCEPT !.again = aggregate(inp.decisions)]
    /\ pc' = "done"
    /\ UNCHANGED <<cancel, sessions, inp, ev, result, state, attempt,
                   maxAttempts, history, pending, decision, genCalls,
                   evalCalls>>

NextAggregate == Aggregate \/ AggregateAgain
SpecAggregate == InitAggregate /\ [][NextAggregate]_vars

\* a <= b for fractions with positive denominators.
LessEq(a, b) == a.num * b.den <= b.num * a.den

CancelDecisionFabricated(h) ==
    IF h = <<>> THEN OutrightDecision("reject", 1) ELSE FallbackDecision(h)

\* What a cancelled session reports: the best attempt of the history, or a
\* hard failure when no attempt completed.
CancelDecision(h) == IF h = <<>> THEN HardFailure ELSE FallbackDecision(h)

\* The caller asks the session to stop.
RequestCancel ==
    /\ ~cancel
    /\ state \in {"Generating", "Evaluating", "Deciding", "Reloop"}
    /\ cancel' = TRUE
    /\ UNCHANGED <<sessions, pc, inp, out, ev, result, state, attempt,
                   maxAttempts, history, pending, decision, genCalls,
                   evalCalls>>

\* Between rounds the request is honoured: no further call is started.
CancelStop ==
    /\ cancel
    /\ state \in {"Generating", "Reloop"}
    /\ state' = IF history = <<>> THEN "Failed" ELSE "Exhausted"
    /\ decision' = CancelDecision(history)
    /\ UNCHANGED <<cancel, sessions, pc, inp, out, ev, result, attempt,
                   maxAttempts, history, pending, genCalls, evalCalls>>

NextCancel == NextCalls \/ RequestCancel \/ CancelStop
SpecCancel == Init /\ [][NextCancel]_vars

\* The session has been asked to stop and is in the middle of a round.
CancelMidRound == cancel /\ state \in {"Evaluating", "Deciding"}

\* The session has been asked to stop and is where a round would start.
CancelBetweenRounds == cancel /\ state = "Generating"

C21_Step ==
    /\ (CancelMidRound /\ state' # state) =>
          (/\ state' \notin {"Exhausted", "Failed"}
           /\ state = "Evaluating" => evalCalls' = evalCalls + 1)
    /\ (CancelBetweenRounds /\ state' # state) =>
          /\ genCalls' = genCalls /\ evalCalls' = evalCalls
          /\ history' = history
          /\ IF history = <<>>
               THEN /\ state' = "Failed"
                    /\ decision'.selected = 0
                    /\ ~decision'.bestAttemptSelected
               ELSE /\ state' = "Exhausted"
                    /\ decision'.bestAttemptSelected
                    /\ decision'.selected = BestAttempt(history).attempt

\* C21: a cancel request is honoured only between rounds (a round under
\* way first completes its calls); the session then ends like Exhausted,
\* with the best attempt of the history recorded so far, and with an empty
\* history it reports a hard failure with no selected attempt and
\* bestAttemptSelected = false.
C21_Cancellation ==
    /\ [][C21_Step]_vars
    /\ [](state = "Failed" =>
            (/\ history = <<>>
             /\ decision.selected = 0
             /\ ~decision.bestAttemptSelected))
    /\ [](state = "Exhausted" =>
            (/\ history # <<>>
             /\ decision.bestAttemptSelected
             /\ \E i \in 1..Len(history) :
                   /\ history[i].attempt = decision.selected
                   /\ \A j \in 1..Len(history) :
                         quality_score(history[i].evaluation)
                             <= quality_score(history[j].evaluation)))

\* Cancelled after the first of three attempts asked for a reloop.
C21_Witness ==
    /\ cancel
    /\ state = "Exhausted"
    /\ maxAttempts = 3
    /\ attempt <= 2
    /\ Len(history) = 1
    /\ genCalls = 1
    /\ decision.selected = 1
    /\ decision.bestAttemptSelected

(***************************************************************************)
(* A pool of sessions, one per promise, run by workers in any order        *)
(* (spec 5).  Each session is a record of its own state.                   *)
(***************************************************************************)
NumSessions == 2

\* The state of a session about to start.
InitialSession(m) ==
    [state |-> "Generating", attempt |-> 1, maxAttempts |-> m,
     history |-> <<>>, pending |-> NoAnalysis, decision |-> NoDecision]

\* The model outputs of session i: its own Analysis, and evaluations that
\* approve, reject, or ask for a reloop.
AnalysisFor(i) == [detailed_score |-> IF i = 1 THEN 35 ELSE 75]
EvalsFor(i) ==
    {e \in SessionEvals :
        /\ e.hallucination = 0
        /\ e.satisfaction = IF e.bias = 50 /\ i # 1 THEN 55 ELSE 90}

\* A variant in which the workers share the slot of the pending Analysis.
ResponseOfShared(ss, i) == ss[1].pending

\* The Analysis a worker records for session i: the one pending in i.
ResponseOf(ss, i) == ss[i].pending

\* The rounds of one session, on its record.
SessGenerate(s, a) == [s EXCEPT !.pending = a, !.state = "Evaluating"]
SessEvaluate(s, a, e) ==
    [s EXCEPT !.history = Append(@, Attempt(s.attempt, a, e)),
              !.state = "Deciding"]
SessDecide(s) ==
    LET action == ActionOf(s.history[Len(s.history)].evaluation)
    IN  [s EXCEPT !.state = StateOf(action),
                  !.decision = IF action = "reloop" THEN @
                               ELSE OutrightDecision(action, s.attempt)]
SessReloop(s) ==
    IF can_reloop(s.attempt, s.maxAttempts)
      THEN [s EXCEPT !.attempt = @ + 1, !.state = "Generating"]
      ELSE [s EXCEPT !.state = "Exhausted",
                     !.decision = FallbackDecision(s.history)]

InitPool ==
    /\ ev = IdleEval
    /\ result = NotDecided
    /\ SessionIdle
    /\ pc = "idle"
    /\ inp = NoInput
    /\ out = NoOutput
    /\ cancel = FALSE
    /\ sessions \in [1..NumSessions -> {InitialSession(m) :
                                          m \in 1..MaxAttemptsBound}]

PoolFrame ==
    UNCHANGED <<cancel, pc, inp, out, ev, result, state, attempt,
                maxAttempts, history, pending, decision, genCalls,
                evalCalls>>

PoolGenerate ==
    /\ \E i \in DOMAIN sessions :
          /\ sessions[i].state = "Generating"
          /\ sessions' = [sessions EXCEPT
                             ![i] = SessGenerate(@, AnalysisFor(i))]
    /\ PoolFrame

PoolEvaluate ==
    /\ \E i \in DOMAIN sessions :
          /\ sessions[i].state = "Evaluating"
          /\ \E e \in EvalsFor(i) :
                sessions' = [sessions EXCEPT
                                ![i] = SessEvaluate(
                                           @, ResponseOf(sessions, i), e)]
    /\ PoolFrame

PoolDecide ==
    /\ \E i \in DOMAIN sessions :
          /\ sessions[i].state = "Deciding"
          /\ sessions' = [sessions EXCEPT ![i] = SessDecide(@)]
    /\ PoolFrame

PoolReloop ==
    /\ \E i \in DOMAIN sessions :
          /\ sessions[i].state = "Reloop"
          /\ sessions' = [sessions EXCEPT ![i] = SessReloop(@)]
    /\ PoolFrame

NextPool == PoolGenerate \/ PoolEvaluate \/ PoolDecide \/ PoolReloop
SpecPool == InitPool /\ [][NextPool]_vars

\* What a session that runs alone holds after the outputs recorded in its
\* history: its counter, its attempts and its decision follow from its own
\* budget, its own Analysis and the evaluations it received.
AloneConsistent(s, i) ==
    /\ \A k \in 1..Len(s.history) :
          /\ s.history[k].attempt = k
          /\ s.history[k].response = AnalysisFor(i)
    /\ s.attempt = IF s.state \in {"Generating", "Evaluating"}
                     THEN Len(s.history) + 1 ELSE Len(s.history)
    /\ s.attempt <= s.maxAttempts
    /\ s.pending = IF s.state = "Generating" /\ s.attempt = 1
                     THEN NoAnalysis ELSE AnalysisFor(i)
    /\ s.decision =
          IF s.state \in {"Approved", "Warned", "Rejected"}
            THEN OutrightDecision(
                     ActionOf(s.history[Len(s.history)].evaluation),
                     Len(s.history))
          ELSE IF s.state = "Exhausted" THEN FallbackDecision(s.history)
          ELSE NoDecision

\* A step changes one session at most.
C22_Step ==
    \A i \in DOMAIN sessions, j \in DOMAIN sessions :
        (i # j /\ sessions'[i] # sessions[i]) => sessions'[j] = sessions[j]

\* C22: sessions for different promises are independent under every
\* interleaving: a step of one session leaves the others as they are, and
\* what a session holds (counter, history, Analysis, Evaluations, Decision)
\* is what it would hold running alone on its own model outputs.
C22_Independent ==
    /\ [][C22_Step]_vars
    /\ [](\A i \in DOMAIN sessions : AloneConsistent(sessions[i], i))

\* The second session is exhausted after two reloops while the first is
\* still in its first round.
C22_Witness ==
    /\ sessions # <<>>
    /\ sessions[1].state = "Evaluating"
    /\ sessions[1].attempt = 1
    /\ sessions[2].state = "Exhausted"
    /\ sessions[2].maxAttempts = 2
    /\ Len(sessions[2].history) = 2
    /\ sessions[2].decision.bestAttemptSelected

====
